---- MODULE Spec2Model ----
(***************************************************************************)
(* go-chat-simple: one Board goroutine (HandleBoard) serialising LOGIN,    *)
(* LOGOUT and TEXTLINE notifications received on the unbuffered wakeupCh,  *)
(* and one Serve per accepted connection, made of the main goroutine (the  *)
(* prompt, the login, then the writer loop over its reply channel) and a   *)
(* helper goroutine reading lines from the client.                         *)
(*                                                                         *)
(* Strings are sequences of one-character strings.  A reply channel is     *)
(* named by the handler that made it (make(chan *Notification), one per    *)
(* Serve).  A *Notification is an index into accepted, the sequence of     *)
(* notifications HandleBoard has received so far.                          *)
(***************************************************************************)
EXTENDS Integers, Sequences, FiniteSets, TLC

\* Bounds of the model: the connections Run has accepted, and the inputs the
\* clients give in all (a name line, a text line, an end of stream, or a
\* connection lost before the login).  A failed write of the writer loop, and
\* a read error on a conn that Serve has closed itself, are not counted.
NumHandlers == 3
MaxInputs == 4

\* The text lines typed in all by clients that each give a name of their own.
MaxLines == 3

Handlers == 1..NumHandlers

\* What a client may type as its name line.
RawNames == { <<"a", "\n">>, <<" ", "a", "\r", "\n">>, <<"b", "\n">> }

\* The text lines a client types, in turn and over again.  Serve and
\* HandleBoard pass a line on without looking into it, so that which line is
\* typed decides nothing; consecutive lines differ, to tell them apart on conn.
LineScript == << <<"x", "\n">>, <<"y", "\n">> >>
Lines == { LineScript[i] : i \in DOMAIN LineScript }

LOGIN == "LOGIN"
LOGOUT == "LOGOUT"
TEXTLINE == "TEXTLINE"

NoCh == 0
NoMsg == 0

VARIABLES
    clients,      \* Board.clients: name -> reply channel
    bpc,          \* HandleBoard: "recv" (at the select), "fanout" (in the range loop), "panic"
    m,            \* HandleBoard's m: the notification being handled
    todo,         \* names the range loop has still to visit, in its order
    hpc,          \* Serve's main goroutine
    rpc,          \* Serve's reader goroutine
    name,         \* Serve's name
    line,         \* the reader goroutine's line
    r,            \* the writer loop's r
    replyClosed,  \* close(reply) has run
    connClosed,   \* conn.Close() has run
    out,          \* what has been written and flushed to conn
    ninputs,      \* inputs the clients have given so far
    accepted,     \* the notifications HandleBoard has received, in order
    sent,         \* channels sent on while handling m
    rcvd          \* notifications each writer loop has received, in order

vars == <<clients, bpc, m, todo, hpc, rpc, name, line, r, replyClosed,
          connClosed, out, ninputs, accepted, sent, rcvd>>

boardVars == <<clients, bpc, m, todo, accepted, sent>>

----------------------------------------------------------------------------
\* Pure functions.

IsSpace(c) == c \in {" ", "\n", "\t", "\r"}

RECURSIVE TrimLeft(_)
TrimLeft(s) ==
    IF s # <<>> /\ IsSpace(Head(s)) THEN TrimLeft(Tail(s)) ELSE s

RECURSIVE TrimRight(_)
TrimRight(s) ==
    IF s # <<>> /\ IsSpace(s[Len(s)])
    THEN TrimRight(SubSeq(s, 1, Len(s) - 1))
    ELSE s

\* strings.TrimSpace
TrimSpace(s) == TrimRight(TrimLeft(s))

\* A format without the separator.
FormatNoSep(n, msg) == n \o msg

\* fmt.Sprintf("%s: %s", r.Name, r.Msg)
Format(n, msg) == n \o <<":", " ">> \o msg

Prompt == <<"u", "s", "e", "r", "n", "a", "m", "e", ">", " ">>

Range(s) == { s[i] : i \in DOMAIN s }

\* A Login that keeps an existing registration instead of overwriting it.
MapSetKeepFirst(c, n, ch) ==
    [k \in DOMAIN c \cup {n} |-> IF k \in DOMAIN c THEN c[k] ELSE ch]

\* b.clients[m.Name] = m.ReplyCh
MapSet(c, n, ch) == [k \in DOMAIN c \cup {n} |-> IF k = n THEN ch ELSE c[k]]

\* A Logout that leaves the registration in place.
MapDeleteNoop(c, n) == c

\* A Logout that empties the map.
MapDeleteAll(c, n) == << >>

\* delete(b.clients, m.Name)
MapDelete(c, n) == [k \in DOMAIN c \ {n} |-> c[k]]

\* A range loop that skips nobody.
SkipNobody(n, sender) == FALSE

\* if name == m.Name { continue }
SkipName(n, sender) == n = sender

\* A range loop that does not advance past the entry it has just visited.
VisitAgain(t, n) == t

\* for name, ch := range b.clients: the entries still to visit after n, the
\* entry the loop is at
Visited(t, n) == Tail(t)

\* for name, ch := range b.clients: the orders in which the loop may visit
\* the names of a map (Go leaves the order of a map's range open)
Orders(S) ==
    { o \in [1..Cardinality(S) -> S] : \A k \in S : \E i \in DOMAIN o : o[i] = k }

Notification(t, n, msg, ch, h) ==
    [Type |-> t, Name |-> n, Msg |-> msg, ReplyCh |-> ch, from |-> h]

----------------------------------------------------------------------------
\* Run has made the Board, started HandleBoard, and started one Serve for each
\* accepted connection.
Init ==
    /\ clients = << >>
    /\ bpc = "recv"
    /\ m = NoMsg
    /\ todo = <<>>
    /\ hpc = [h \in Handlers |-> "prompt"]
    /\ rpc = [h \in Handlers |-> "none"]
    /\ name = [h \in Handlers |-> <<>>]
    /\ line = [h \in Handlers |-> <<>>]
    /\ r = [h \in Handlers |-> NoMsg]
    /\ replyClosed = [h \in Handlers |-> FALSE]
    /\ connClosed = [h \in Handlers |-> FALSE]
    /\ out = [h \in Handlers |-> <<>>]
    /\ ninputs = 0
    /\ accepted = <<>>
    /\ sent = <<>>
    /\ rcvd = [h \in Handlers |-> <<>>]

----------------------------------------------------------------------------
\* Serve, before the login.

\* writer.WriteString("username> "); writer.Flush()
PromptOk(h) ==
    /\ hpc[h] = "prompt"
    /\ out' = [out EXCEPT ![h] = Append(@, Prompt)]
    /\ hpc' = [hpc EXCEPT ![h] = "readname"]
    /\ UNCHANGED <<rpc, name, line, r, replyClosed, connClosed, ninputs, rcvd>>
    /\ UNCHANGED boardVars

\* the prompt's write or flush fails: return, and the deferred conn.Close()
PromptFail(h) ==
    /\ ninputs < MaxInputs
    /\ ninputs' = ninputs + 1
    /\ hpc[h] = "prompt"
    /\ hpc' = [hpc EXCEPT ![h] = "done"]
    /\ connClosed' = [connClosed EXCEPT ![h] = TRUE]
    /\ UNCHANGED <<rpc, name, line, r, replyClosed, out, rcvd>>
    /\ UNCHANGED boardVars

\* name, err := reader.ReadString('\n'); name = strings.TrimSpace(name)
ReadName(h) ==
    /\ ninputs < MaxInputs
    /\ ninputs' = ninputs + 1
    /\ hpc[h] = "readname"
    /\ \E raw \in RawNames :
          name' = [name EXCEPT ![h] = TrimSpace(raw)]
    /\ hpc' = [hpc EXCEPT ![h] = "login"]
    /\ UNCHANGED <<rpc, line, r, replyClosed, connClosed, out, rcvd>>
    /\ UNCHANGED boardVars

\* A Serve that logs out on every return, the return before the login included.
ReadNameFailLogout(h) ==
    /\ ninputs < MaxInputs
    /\ ninputs' = ninputs + 1
    /\ hpc[h] = "readname"
    /\ hpc' = [hpc EXCEPT ![h] = "done"]
    /\ rpc' = [rpc EXCEPT ![h] = "logout"]
    /\ connClosed' = [connClosed EXCEPT ![h] = TRUE]
    /\ UNCHANGED <<name, line, r, replyClosed, out, rcvd>>
    /\ UNCHANGED boardVars

\* the name line cannot be read: return, and the deferred conn.Close()
ReadNameFail(h) ==
    /\ ninputs < MaxInputs
    /\ ninputs' = ninputs + 1
    /\ hpc[h] = "readname"
    /\ hpc' = [hpc EXCEPT ![h] = "done"]
    /\ connClosed' = [connClosed EXCEPT ![h] = TRUE]
    /\ UNCHANGED <<rpc, name, line, r, replyClosed, out, rcvd>>
    /\ UNCHANGED boardVars

----------------------------------------------------------------------------
\* HandleBoard receiving from wakeupCh.  wakeupCh is unbuffered: the send in
\* Login, Logout or Publish and the receive in HandleBoard are one step.

\* A Login that returns although HandleBoard is not at its receive, as if
\* wakeupCh had a buffer.
HandleLoginBuffered(h) ==
    /\ hpc[h] = "login"
    /\ accepted' = Append(accepted, Notification(LOGIN, name[h], <<>>, h, h))
    /\ m' = IF bpc = "recv" THEN Len(accepted) + 1 ELSE m
    /\ sent' = IF bpc = "recv" THEN <<>> ELSE sent
    /\ clients' = MapSet(clients, name[h], h)
    /\ hpc' = [hpc EXCEPT ![h] = "select"]
    /\ rpc' = [rpc EXCEPT ![h] = "read"]
    /\ UNCHANGED <<bpc, todo, name, line, r, replyClosed, connClosed, out, ninputs, rcvd>>

\* Serve: b.Login(name, reply), then go func() and the writer loop;
\* HandleBoard: case LOGIN
HandleLogin(h) ==
    /\ bpc = "recv"
    /\ hpc[h] = "login"
    /\ accepted' = Append(accepted, Notification(LOGIN, name[h], <<>>, h, h))
    /\ m' = Len(accepted) + 1
    /\ sent' = <<>>
    /\ clients' = MapSet(clients, name[h], h)
    /\ hpc' = [hpc EXCEPT ![h] = "select"]
    /\ rpc' = [rpc EXCEPT ![h] = "read"]
    /\ UNCHANGED <<bpc, todo, name, line, r, replyClosed, connClosed, out, ninputs, rcvd>>

\* A LOGOUT case that treats an unknown name as a fatal error.
HandleLogoutStrict(h) ==
    /\ bpc = "recv"
    /\ rpc[h] = "logout"
    /\ accepted' = Append(accepted, Notification(LOGOUT, name[h], <<>>, NoCh, h))
    /\ m' = Len(accepted) + 1
    /\ sent' = <<>>
    /\ clients' = MapDelete(clients, name[h])
    /\ bpc' = IF name[h] \in DOMAIN clients THEN "recv" ELSE "panic"
    /\ rpc' = [rpc EXCEPT ![h] = "closing"]
    /\ UNCHANGED <<todo, hpc, name, line, r, replyClosed, connClosed, out, ninputs, rcvd>>

\* A reader goroutine that goes on reading after b.Logout.
HandleLogoutNoReturn(h) ==
    /\ bpc = "recv"
    /\ rpc[h] = "logout"
    /\ accepted' = Append(accepted, Notification(LOGOUT, name[h], <<>>, NoCh, h))
    /\ m' = Len(accepted) + 1
    /\ sent' = <<>>
    /\ clients' = MapDelete(clients, name[h])
    /\ rpc' = [rpc EXCEPT ![h] = "read"]
    /\ UNCHANGED <<bpc, todo, hpc, name, line, r, replyClosed, connClosed, out, ninputs, rcvd>>

\* reader goroutine: b.Logout(name); HandleBoard: case LOGOUT
HandleLogout(h) ==
    /\ bpc = "recv"
    /\ rpc[h] = "logout"
    /\ accepted' = Append(accepted, Notification(LOGOUT, name[h], <<>>, NoCh, h))
    /\ m' = Len(accepted) + 1
    /\ sent' = <<>>
    /\ clients' = MapDelete(clients, name[h])
    /\ rpc' = [rpc EXCEPT ![h] = "closing"]
    /\ UNCHANGED <<bpc, todo, hpc, name, line, r, replyClosed, connClosed, out, ninputs, rcvd>>

\* reader goroutine: b.Publish(name, line); HandleBoard: case TEXTLINE, entering
\* the range loop
HandleTextline(h) ==
    /\ bpc = "recv"
    /\ rpc[h] = "publish"
    /\ accepted' = Append(accepted, Notification(TEXTLINE, name[h], line[h], NoCh, h))
    /\ m' = Len(accepted) + 1
    /\ sent' = <<>>
    /\ todo' \in Orders(DOMAIN clients)
    /\ bpc' = IF DOMAIN clients = {} THEN "recv" ELSE "fanout"
    /\ rpc' = [rpc EXCEPT ![h] = "read"]
    /\ UNCHANGED <<clients, hpc, name, line, r, replyClosed, connClosed, out, ninputs, rcvd>>

\* one iteration of the range loop that skips the sender's name
Skip(n) ==
    /\ bpc = "fanout"
    /\ todo # <<>> /\ n = Head(todo)
    /\ SkipName(n, accepted[m].Name)
    /\ todo' = Visited(todo, n)
    /\ bpc' = IF todo' = <<>> THEN "recv" ELSE "fanout"
    /\ UNCHANGED <<clients, m, accepted, sent>>
    /\ UNCHANGED <<hpc, rpc, name, line, r, replyClosed, connClosed, out, ninputs, rcvd>>

\* one iteration of the range loop: ch <- m.  reply is unbuffered, so the send
\* and the writer loop's receive are one step, and until the writer loop is at
\* its receive the loop stays at this entry; a send on a closed channel panics.
Forward(n) ==
    /\ bpc = "fanout"
    /\ todo # <<>> /\ n = Head(todo)
    /\ ~SkipName(n, accepted[m].Name)
    /\ LET ch == clients[n] IN
       IF replyClosed[ch]
       THEN /\ bpc' = "panic"
            /\ UNCHANGED <<todo, sent, hpc, r, rcvd>>
       ELSE /\ hpc[ch] = "select"
            /\ hpc' = [hpc EXCEPT ![ch] = "write"]
            /\ r' = [r EXCEPT ![ch] = m]
            /\ rcvd' = [rcvd EXCEPT ![ch] = Append(@, m)]
            /\ sent' = Append(sent, ch)
            /\ todo' = Visited(todo, n)
            /\ bpc' = IF todo' = <<>> THEN "recv" ELSE "fanout"
    /\ UNCHANGED <<clients, m, accepted>>
    /\ UNCHANGED <<rpc, name, line, replyClosed, connClosed, out, ninputs>>

----------------------------------------------------------------------------
\* Serve's reader goroutine.

\* the lines h's reader goroutine has read so far
LinesRead(h) ==
    Cardinality({ i \in DOMAIN accepted :
                    accepted[i].Type = TEXTLINE /\ accepted[i].from = h })
        + (IF rpc[h] = "publish" THEN 1 ELSE 0)

\* line, err := reader.ReadString('\n') with err == nil
ReadLine(h) ==
    /\ rpc[h] = "read"
    /\ ninputs < MaxInputs
    /\ ninputs' = ninputs + 1
    /\ line' = [line EXCEPT ![h] = LineScript[(LinesRead(h) % Len(LineScript)) + 1]]
    /\ rpc' = [rpc EXCEPT ![h] = "publish"]
    /\ UNCHANGED <<hpc, name, r, replyClosed, connClosed, out, rcvd>>
    /\ UNCHANGED boardVars

\* line, err := reader.ReadString('\n') with err != nil: the client has ended
\* the stream, or Serve has returned and closed conn
ReadErr(h) ==
    /\ rpc[h] = "read"
    /\ IF connClosed[h]
       THEN ninputs' = ninputs
       ELSE ninputs < MaxInputs /\ ninputs' = ninputs + 1
    /\ rpc' = [rpc EXCEPT ![h] = "logout"]
    /\ UNCHANGED <<hpc, name, line, r, replyClosed, connClosed, out, rcvd>>
    /\ UNCHANGED boardVars

\* defer close(reply)
CloseReply(h) ==
    /\ rpc[h] = "closing"
    /\ replyClosed' = [replyClosed EXCEPT ![h] = TRUE]
    /\ rpc' = [rpc EXCEPT ![h] = "exit"]
    /\ UNCHANGED <<hpc, name, line, r, connClosed, out, ninputs, rcvd>>
    /\ UNCHANGED boardVars

----------------------------------------------------------------------------
\* Serve's writer loop.

\* case r, ok := <-reply with !ok: return, and the deferred conn.Close()
RecvClosed(h) ==
    /\ hpc[h] = "select"
    /\ replyClosed[h]
    /\ hpc' = [hpc EXCEPT ![h] = "done"]
    /\ connClosed' = [connClosed EXCEPT ![h] = TRUE]
    /\ UNCHANGED <<rpc, name, line, r, replyClosed, out, ninputs, rcvd>>
    /\ UNCHANGED boardVars

\* writer.WriteString(fmt.Sprintf("%s: %s", r.Name, r.Msg)); writer.Flush()
WriteOk(h) ==
    /\ hpc[h] = "write"
    /\ out' = [out EXCEPT ![h] = Append(@, Format(accepted[r[h]].Name, accepted[r[h]].Msg))]
    /\ hpc' = [hpc EXCEPT ![h] = "select"]
    /\ r' = [r EXCEPT ![h] = NoMsg]
    /\ UNCHANGED <<rpc, name, line, replyClosed, connClosed, ninputs, rcvd>>
    /\ UNCHANGED boardVars

\* A writer loop that closes reply itself when a write fails.
WriteFailCloses(h) ==
    /\ hpc[h] = "write"
    /\ hpc' = [hpc EXCEPT ![h] = "done"]
    /\ connClosed' = [connClosed EXCEPT ![h] = TRUE]
    /\ replyClosed' = [replyClosed EXCEPT ![h] = TRUE]
    /\ r' = [r EXCEPT ![h] = NoMsg]
    /\ UNCHANGED <<rpc, name, line, out, ninputs, rcvd>>
    /\ UNCHANGED boardVars

\* the write or the flush fails: return, and the deferred conn.Close()
WriteFail(h) ==
    /\ hpc[h] = "write"
    /\ hpc' = [hpc EXCEPT ![h] = "done"]
    /\ connClosed' = [connClosed EXCEPT ![h] = TRUE]
    /\ r' = [r EXCEPT ![h] = NoMsg]
    /\ UNCHANGED <<rpc, name, line, replyClosed, out, ninputs, rcvd>>
    /\ UNCHANGED boardVars

----------------------------------------------------------------------------
Next ==
    \/ \E h \in Handlers : PromptOk(h)
    \/ \E h \in Handlers : PromptFail(h)
    \/ \E h \in Handlers : ReadName(h)
    \/ \E h \in Handlers : ReadNameFail(h)
    \/ \E h \in Handlers : HandleLogin(h)
    \/ \E h \in Handlers : HandleLogout(h)
    \/ \E h \in Handlers : HandleTextline(h)
    \/ \E n \in Range(todo) : Skip(n)
    \/ \E n \in Range(todo) : Forward(n)
    \/ \E h \in Handlers : ReadLine(h)
    \/ \E h \in Handlers : ReadErr(h)
    \/ \E h \in Handlers : CloseReply(h)
    \/ \E h \in Handlers : RecvClosed(h)
    \/ \E h \in Handlers : WriteOk(h)
    \/ \E h \in Handlers : WriteFail(h)

Spec == Init /\ [][Next]_vars

----------------------------------------------------------------------------
\* Scheduling.  Every goroutine that can take a step is eventually run, a write
\* to conn returns (with or without an error), and a read on a connection that
\* Serve has closed returns an error.  What a client sends is not scheduled.
Fairness ==
    /\ \A h \in Handlers : WF_vars(PromptOk(h) \/ PromptFail(h))
    /\ \A h \in Handlers : WF_vars(HandleLogin(h))
    /\ \A h \in Handlers : WF_vars(HandleLogout(h))
    /\ \A h \in Handlers : WF_vars(HandleTextline(h))
    /\ WF_vars(\E n \in Range(todo) : Skip(n) \/ Forward(n))
    /\ \A h \in Handlers : WF_vars(connClosed[h] /\ ReadErr(h))
    /\ \A h \in Handlers : WF_vars(CloseReply(h))
    /\ \A h \in Handlers : WF_vars(RecvClosed(h))
    /\ \A h \in Handlers : WF_vars(WriteOk(h) \/ WriteFail(h))

FairSpec == Init /\ [][Next]_vars /\ Fairness

----------------------------------------------------------------------------
\* Reading the state.

Idx == DOMAIN accepted

IsLogin(i, n) == accepted[i].Type = LOGIN /\ accepted[i].Name = n
IsLogout(i, n) == accepted[i].Type = LOGOUT /\ accepted[i].Name = n
IsPublish(i) == accepted[i].Type = TEXTLINE

\* h's name is registered with h's own reply channel
Registered(h) == name[h] \in DOMAIN clients /\ clients[name[h]] = h

\* h is blocked in the send of Login, Logout or Publish
Submitting(h) == hpc[h] = "login" \/ rpc[h] \in {"publish", "logout"}

\* h has had a read or a write fail after its login
Failed(h) ==
    \/ rpc[h] \in {"logout", "closing", "exit"}
    \/ (hpc[h] = "done" /\ rpc[h] # "none")

NoDup(s) == \A i, j \in DOMAIN s : i # j => s[i] # s[j]

\* the channels registered under names other than n
Others(n) == { clients[k] : k \in DOMAIN clients \ {n} }

----------------------------------------------------------------------------
\* C1: after a handler's mid-session read or write failure the Board is never
\* left blocked for good: a fan-out in progress is completed, and what any
\* other handler submits is accepted.
C1_FailureConfined ==
    /\ ((bpc = "fanout" /\ \E f \in Handlers : Failed(f)) ~> (bpc = "recv"))
    /\ \A g \in Handlers :
          (Submitting(g) /\ \E f \in Handlers \ {g} : Failed(f)) ~> ~Submitting(g)

RECURSIVE Replay(_)
Replay(log) ==
    IF log = <<>> THEN << >>
    ELSE LET before == Replay(SubSeq(log, 1, Len(log) - 1))
             e == log[Len(log)]
         IN  CASE e.Type = LOGIN ->
                    [k \in DOMAIN before \cup {e.Name} |->
                        IF k = e.Name THEN e.ReplyCh ELSE before[k]]
               [] e.Type = LOGOUT ->
                    [k \in DOMAIN before \ {e.Name} |-> before[k]]
               [] OTHER -> before

C3_Linearizable == clients = Replay(accepted)

C3_Witness ==
    /\ \E i, j, k \in Idx :
          /\ i < j /\ j < k
          /\ accepted[i].Type = LOGIN /\ accepted[j].Type = LOGIN
          /\ accepted[i].Name = accepted[j].Name
          /\ accepted[k].Type = LOGOUT
          /\ accepted[k].from # accepted[j].from
    /\ clients # << >>

\* C4 as stated: a Publish from a handler that is not registered (its name was
\* removed, or registered again by another handler) is delivered to nobody.
C4_Original ==
    (m # NoMsg /\ IsPublish(m) /\ ~Registered(accepted[m].from)) => sent = <<>>

\* C4 as amended: a Publish from a handler that is not registered is no error:
\* it leaves membership unchanged, the Board does not panic, and it is sent on
\* exactly the channels registered under names other than the sender's name.
C4_UnregisteredPublish ==
    [][(m' # m /\ accepted'[m'].Type = TEXTLINE /\ ~Registered(accepted'[m'].from))
          => /\ clients' = clients
             /\ bpc' # "panic"
             /\ (bpc' = "recv" => Others(accepted'[m'].Name) = {})
             /\ sent' = <<>>]_vars
    /\ [](m # NoMsg /\ IsPublish(m) /\ ~Registered(accepted[m].from)
            => /\ bpc # "panic"
               /\ Range(sent) \subseteq Others(accepted[m].Name)
               /\ (bpc = "recv" => Range(sent) = Others(accepted[m].Name)))

C4_Witness ==
    /\ m # NoMsg /\ IsPublish(m)
    /\ ~Registered(accepted[m].from)
    /\ accepted[m].Name \in DOMAIN clients
    /\ bpc = "recv"
    /\ sent # <<>>

\* C5: a Logout for a name that is not in membership leaves membership as it
\* was, and the Board is back at its receive.
C5_LogoutUnknown ==
    [][(m' # m /\ accepted'[m'].Type = LOGOUT /\ accepted'[m'].Name \notin DOMAIN clients)
          => (clients' = clients /\ bpc' = "recv")]_vars

C5_Witness ==
    /\ m # NoMsg /\ accepted[m].Type = LOGOUT
    /\ bpc = "recv"
    /\ \E i \in Idx :
          /\ i < m
          /\ IsLogout(i, accepted[m].Name)
          /\ \A k \in (i + 1)..(m - 1) : ~IsLogin(k, accepted[m].Name)

\* Login(n, ..) at i, Login(n, ..) at j, and no Logout(n) between them
Overwrite(i, j, n) ==
    /\ i < j
    /\ IsLogin(i, n) /\ IsLogin(j, n)
    /\ \A k \in (i + 1)..(j - 1) : ~IsLogout(k, n)

\* no Login or Logout for n has been accepted in from..to
Quiet(from, to, n) == \A k \in from..to : ~IsLogin(k, n) /\ ~IsLogout(k, n)

\* the fan-out of the accepted Publish p is over
FanoutOver(p) == p < m \/ bpc = "recv"

\* i and j are two accepted Logins for one name, with no Logout for it between
Overwrites(i, j) ==
    /\ i < j
    /\ accepted[i].Type = LOGIN /\ accepted[j].Type = LOGIN
    /\ accepted[i].Name = accepted[j].Name
    /\ Overwrite(i, j, accepted[j].Name)

\* C6 as stated: once Login(n, c2) has overwritten Login(n, c1), membership maps
\* n to c2 from then on.
C6_Original ==
    \A i, j \in Idx :
        (Overwrites(i, j)
            /\ \A k \in (j + 1)..Len(accepted) : ~IsLogin(k, accepted[j].Name))
            => LET n == accepted[j].Name IN
               n \in DOMAIN clients /\ clients[n] = accepted[j].ReplyCh

\* C6 as amended: once Login(n, c2) has overwritten Login(n, c1), and until the
\* next Login or Logout for n, membership maps n to c2 and every completed
\* Publish from another name has been sent on c2; c1 is never sent on again.
C6_LastLoginWins ==
    \A i, j \in Idx :
        Overwrites(i, j) =>
            LET n == accepted[j].Name
                c1 == accepted[i].ReplyCh
                c2 == accepted[j].ReplyCh
            IN  /\ Quiet(j + 1, Len(accepted), n)
                      => (n \in DOMAIN clients /\ clients[n] = c2)
                /\ \A p \in (j + 1)..Len(accepted) :
                      (IsPublish(p) /\ accepted[p].Name # n
                          /\ Quiet(j + 1, p, n) /\ FanoutOver(p))
                          => p \in Range(rcvd[c2])
                /\ \A p \in Range(rcvd[c1]) : p < j

C6_Witness ==
    \E i, j, p \in Idx :
        /\ Overwrites(i, j)
        /\ j < p
        /\ IsPublish(p) /\ accepted[p].Name # accepted[j].Name
        /\ p \in Range(rcvd[accepted[j].ReplyCh])

\* C7: a single Logout(n) after two Logins for n removes n, leaves neither
\* Login's channel in membership, and leaves every other name as it was.
C7_LogoutAfterTwoLogins ==
    [][(m' # m /\ accepted'[m'].Type = LOGOUT) =>
          LET n == accepted'[m'].Name IN
          \A i, j \in Idx :
              (Overwrites(i, j) /\ accepted[j].Name = n
                  /\ Quiet(j + 1, Len(accepted), n))
              => /\ n \notin DOMAIN clients'
                 /\ \A k \in DOMAIN clients' :
                       clients'[k] \notin {accepted[i].ReplyCh, accepted[j].ReplyCh}
                 /\ DOMAIN clients' = DOMAIN clients \ {n}
                 /\ \A k \in DOMAIN clients' : clients'[k] = clients[k]]_vars

C7_Witness ==
    /\ m # NoMsg /\ accepted[m].Type = LOGOUT
    /\ \E i, j \in Idx :
          /\ j < m
          /\ Overwrite(i, j, accepted[m].Name)
          /\ Quiet(j + 1, m - 1, accepted[m].Name)
    /\ clients # << >>

----------------------------------------------------------------------------
\* Two clients and no transport failure: the prompt and every write succeed,
\* and no read returns an error.  The other connections have been lost at the
\* prompt.
InitTwo ==
    /\ clients = << >>
    /\ bpc = "recv"
    /\ m = NoMsg
    /\ todo = <<>>
    /\ hpc = [h \in Handlers |-> IF h \in {1, 2} THEN "prompt" ELSE "done"]
    /\ rpc = [h \in Handlers |-> "none"]
    /\ name = [h \in Handlers |-> <<>>]
    /\ line = [h \in Handlers |-> <<>>]
    /\ r = [h \in Handlers |-> NoMsg]
    /\ replyClosed = [h \in Handlers |-> FALSE]
    /\ connClosed = [h \in Handlers |-> h \notin {1, 2}]
    /\ out = [h \in Handlers |-> <<>>]
    /\ ninputs = 0
    /\ accepted = <<>>
    /\ sent = <<>>
    /\ rcvd = [h \in Handlers |-> <<>>]

NextNoFail ==
    \/ \E h \in Handlers : PromptOk(h)
    \/ \E h \in Handlers : ReadName(h)
    \/ \E h \in Handlers : HandleLogin(h)
    \/ \E h \in Handlers : HandleTextline(h)
    \/ \E n \in Range(todo) : Skip(n)
    \/ \E n \in Range(todo) : Forward(n)
    \/ \E h \in Handlers : ReadLine(h)
    \/ \E h \in Handlers : WriteOk(h)

FairnessNoFail ==
    /\ \A h \in Handlers : WF_vars(PromptOk(h))
    /\ \A h \in Handlers : WF_vars(HandleLogin(h))
    /\ \A h \in Handlers : WF_vars(HandleTextline(h))
    /\ WF_vars(\E n \in Range(todo) : Skip(n) \/ Forward(n))
    /\ \A h \in Handlers : WF_vars(WriteOk(h))

SpecTwo == InitTwo /\ [][NextNoFail]_vars /\ FairnessNoFail

\* the accepted Publish notifications of h, in order
PublishesOf(h) == SelectSeq([i \in Idx |-> i], LAMBDA i : IsPublish(i) /\ accepted[i].from = h)

\* the writes to h's conn after the prompt
Written(h) == IF out[h] = <<>> THEN <<>> ELSE Tail(out[h])

\* how often x occurs in s
Count(s, x) == Cardinality({ i \in DOMAIN s : s[i] = x })

\* h's c-th Publish has been written to g's conn, as "<name>: <line>"
Delivered(h, g, c) ==
    /\ Len(PublishesOf(h)) >= c
    /\ LET p == PublishesOf(h)[c] IN
       \E k \in DOMAIN rcvd[g] :
          /\ rcvd[g][k] = p
          /\ Len(Written(g)) >= k
          /\ Written(g)[k] = name[h] \o <<":", " ">> \o accepted[p].Msg

\* C8: with two handlers registered under different names and no transport
\* failure, every line a handler reads is in the end written once to the other
\* handler's conn as "<name>: <line>", and never to its own.
C8_TwoClients ==
    /\ \A h, g \in {1, 2} : \A c \in 1..MaxInputs :
          (/\ h # g
           /\ rpc[h] = "publish"
           /\ Len(PublishesOf(h)) = c - 1
           /\ Registered(h) /\ Registered(g)
           /\ name[h] # name[g])
          ~> Delivered(h, g, c)
    /\ [](\A h, g \in {1, 2} : \A p \in Idx :
            (IsPublish(p) /\ accepted[p].from = h) =>
                /\ Count(rcvd[g], p) <= 1
                /\ Count(rcvd[h], p) = 0
                /\ \A l \in Lines :
                      Count(Written(h), name[h] \o <<":", " ">> \o l) = 0)

C8_Witness ==
    /\ name[1] # name[2]
    /\ Len(PublishesOf(1)) = 2
    /\ Delivered(1, 2, 1) /\ Delivered(1, 2, 2)
    /\ Written(1) = <<>>

\* C9: what a handler receives on its channel is a subsequence of the order in
\* which the Board accepted the Publish notifications, without repetition, and
\* what it writes to its conn is what it received, in that order.
C9_InOrderAtMostOnce ==
    \A h \in Handlers :
        /\ \A k \in DOMAIN rcvd[h] : rcvd[h][k] \in Idx /\ IsPublish(rcvd[h][k])
        /\ \A j, k \in DOMAIN rcvd[h] : j < k => rcvd[h][j] < rcvd[h][k]
        /\ Len(Written(h)) <= Len(rcvd[h])
        /\ \A k \in DOMAIN Written(h) :
              Written(h)[k] =
                  accepted[rcvd[h][k]].Name \o <<":", " ">> \o accepted[rcvd[h][k]].Msg

C9_Witness ==
    \E h \in Handlers :
        /\ Len(Written(h)) = 2
        /\ accepted[rcvd[h][1]].from = accepted[rcvd[h][2]].from
        /\ accepted[rcvd[h][1]].Msg # accepted[rcvd[h][2]].Msg

\* C10: a handler receives no Publish accepted before its own Login, and none
\* accepted after its own Logout.
LoginOf(h) == { i \in Idx : accepted[i].Type = LOGIN /\ accepted[i].from = h }
LogoutOf(h) == { i \in Idx : accepted[i].Type = LOGOUT /\ accepted[i].from = h }

C10_NoReplay ==
    \A h \in Handlers : \A p \in Range(rcvd[h]) :
        /\ \E i \in LoginOf(h) : i < p
        /\ \A o \in LogoutOf(h) : p < o

C10_Witness ==
    \E h \in Handlers : \E i \in LoginOf(h) : \E p, q \in Idx :
        /\ IsPublish(p) /\ p < i
        /\ IsPublish(q) /\ i < q
        /\ accepted[p].from = accepted[q].from
        /\ rcvd[h] = <<q>>

\* C11: the Board never sends on a closed reply channel: no closed channel is
\* registered in membership, so none is among the entries the range loop of a
\* Publish visits, and the send never panics.
C11_NoSendOnClosed ==
    /\ bpc # "panic"
    /\ \A k \in DOMAIN clients : ~replyClosed[clients[k]]
    /\ \A i \in DOMAIN todo : todo[i] \in DOMAIN clients

C11_Witness ==
    /\ bpc = "fanout" /\ IsPublish(m)
    /\ todo # <<>>
    /\ \E h \in Handlers : replyClosed[h] /\ LogoutOf(h) # {}

\* C12 as stated: from the acceptance of a handler's Login until the acceptance
\* of its own Logout, membership maps its name to its own reply channel.
C12_Original ==
    \A h \in Handlers :
        (LoginOf(h) # {} /\ LogoutOf(h) = {}) => Registered(h)

\* no other handler has had a Login or a Logout accepted under h's name
SoleUser(h) ==
    \A k \in Idx :
        (accepted[k].Name = name[h] /\ accepted[k].Type \in {LOGIN, LOGOUT})
            => accepted[k].from = h

\* C12 as amended: from the acceptance of a handler's Login until the next
\* Login or Logout accepted for the same name, its own or another handler's,
\* membership maps its name to its own reply channel; a handler that is the
\* only user of its name and has had no Logout accepted stays registered,
\* whatever the other handlers do.
C12_OwnSlot ==
    \A h \in Handlers :
        /\ \A i \in LoginOf(h) :
              Quiet(i + 1, Len(accepted), accepted[i].Name) => Registered(h)
        /\ (LoginOf(h) # {} /\ LogoutOf(h) = {} /\ SoleUser(h)) => Registered(h)

C12_Witness ==
    \E h, g \in Handlers :
        /\ h # g
        /\ Registered(h) /\ SoleUser(h)
        /\ \E i \in LoginOf(h) : \E o \in LogoutOf(g) : \E p \in Idx :
              /\ i < p /\ p < o
              /\ IsPublish(p) /\ accepted[p].from = g

\* h has disconnected and g has no Publish under way: whatever g publishes
\* from here on is submitted after h's disconnection
DisconnectedBefore(h, g) ==
    /\ Failed(h)
    /\ rpc[g] # "publish"
    /\ ~(bpc = "fanout" /\ accepted[m].from = g)
    /\ \A p \in Range(rcvd[h]) : accepted[p].from # g

\* the Board is in the range loop of a Publish of g
FanningOut(g) == bpc = "fanout" /\ accepted[m].from = g

\* C13: once a handler's stream has closed or errored, no Publish that another
\* handler submits afterwards is sent on its reply channel, and the Board's
\* processing of such a Publish completes, without a panic and without
\* blocking.
C13_NoSendAfterDisconnect ==
    \A h, g \in Handlers :
        h # g =>
            [](DisconnectedBefore(h, g) =>
                  [](/\ \A p \in Range(rcvd[h]) : accepted[p].from # g
                     /\ bpc # "panic"
                     /\ (FanningOut(g) => <>(bpc = "recv"))))

\* Serve has come to its end for h: the writer loop and the reader goroutine
\* have returned, h's Logout has been accepted, reply and conn are closed
Terminated(h) ==
    /\ hpc[h] = "done" /\ rpc[h] = "exit"
    /\ LogoutOf(h) # {}
    /\ replyClosed[h] /\ connClosed[h]

\* C14: after a read or a write of a handler has failed, its writer loop and
\* its reader goroutine eventually return, its Logout is eventually accepted,
\* and its reply channel and its connection are eventually closed.
C14_FailureTerminates ==
    \A h \in Handlers : Failed(h) ~> Terminated(h)

\* C15: a handler's reply channel is closed at most once, by the deferred
\* close of its reader goroutine and after its Logout has been accepted; no
\* step of the writer loop closes it, the return on a write failure included.
C15_ClosedOnceByReader ==
    /\ [][\A h \in Handlers :
            /\ replyClosed'[h] # replyClosed[h] =>
                  /\ ~replyClosed[h] /\ replyClosed'[h]
                  /\ rpc[h] = "closing" /\ rpc'[h] = "exit"
                  /\ hpc'[h] = hpc[h]
                  /\ LogoutOf(h) # {}
            /\ hpc'[h] # hpc[h] => replyClosed'[h] = replyClosed[h]]_vars
    /\ [](\A h \in Handlers :
            /\ rpc[h] = "closing" => ~replyClosed[h]
            /\ replyClosed[h] => rpc[h] = "exit")

C15_Witness ==
    \E h, g \in Handlers :
        /\ replyClosed[h] /\ rpc[h] = "exit" /\ LogoutOf(h) # {}
        /\ hpc[g] = "done" /\ rpc[g] # "none" /\ rcvd[g] # <<>>
        /\ ~replyClosed[g]

\* k is mapped alike in the maps c and d
SameAt(c, d, k) ==
    /\ k \in DOMAIN c <=> k \in DOMAIN d
    /\ k \in DOMAIN c => c[k] = d[k]

\* C16: membership changes only in the step in which the Board accepts a Login
\* or a Logout; accepting a Login maps m.Name to m.ReplyCh, accepting a Logout
\* removes m.Name, and both leave every other name as it was; accepting a
\* Publish, the range loop and every step of a handler leave the map as it was.
C16_OnlyBoardMutates ==
    [][/\ accepted' = accepted => clients' = clients
       /\ accepted' # accepted =>
             LET e == accepted'[Len(accepted')] IN
             /\ bpc = "recv"
             /\ \A k \in (DOMAIN clients \cup DOMAIN clients') \ {e.Name} :
                   SameAt(clients, clients', k)
             /\ e.Type = LOGIN =>
                   e.Name \in DOMAIN clients' /\ clients'[e.Name] = e.ReplyCh
             /\ e.Type = LOGOUT => e.Name \notin DOMAIN clients'
             /\ e.Type = TEXTLINE => clients' = clients]_vars

C16_Witness ==
    /\ m # NoMsg /\ accepted[m].Type = LOGOUT
    /\ clients # << >>
    /\ \E i \in Idx : IsPublish(i) /\ accepted[i].from = accepted[m].from

----------------------------------------------------------------------------
\* Clients that each give a name of their own, so that a range loop has
\* several members to visit besides the sender.

\* The names the clients type, one per connection in turn and over again.
NameScript == << <<"a","\n">>, <<"b","\n">>, <<"c","\n">> >>

\* name, err := reader.ReadString('\n'); name = strings.TrimSpace(name)
ReadScriptedName(h) ==
    /\ hpc[h] = "readname"
    /\ name' = [name EXCEPT ![h] = TrimSpace(NameScript[((h - 1) % Len(NameScript)) + 1])]
    /\ hpc' = [hpc EXCEPT ![h] = "login"]
    /\ UNCHANGED <<rpc, line, r, replyClosed, connClosed, out, ninputs, rcvd>>
    /\ UNCHANGED boardVars

\* Three connections have been accepted.
InitScripted ==
    /\ clients = << >>
    /\ bpc = "recv"
    /\ m = NoMsg
    /\ todo = <<>>
    /\ hpc = [h \in Handlers |-> IF h \in DOMAIN NameScript THEN "prompt" ELSE "done"]
    /\ rpc = [h \in Handlers |-> "none"]
    /\ name = [h \in Handlers |-> <<>>]
    /\ line = [h \in Handlers |-> <<>>]
    /\ r = [h \in Handlers |-> NoMsg]
    /\ replyClosed = [h \in Handlers |-> FALSE]
    /\ connClosed = [h \in Handlers |-> h \notin DOMAIN NameScript]
    /\ out = [h \in Handlers |-> <<>>]
    /\ ninputs = 0
    /\ accepted = <<>>
    /\ sent = <<>>
    /\ rcvd = [h \in Handlers |-> <<>>]

NextScripted ==
    \/ \E h \in Handlers : PromptOk(h)
    \/ \E h \in Handlers : ReadScriptedName(h)
    \/ \E h \in Handlers : HandleLogin(h)
    \/ \E h \in Handlers : HandleTextline(h)
    \/ \E n \in Range(todo) : Skip(n)
    \/ \E n \in Range(todo) : Forward(n)
    \/ \E h \in Handlers : ninputs < MaxLines /\ ReadLine(h)
    \/ \E h \in Handlers : WriteOk(h)
    \/ \E h \in Handlers : WriteFail(h)

SpecScripted == InitScripted /\ [][NextScripted]_vars

\* the notification h is blocked sending, if h is Submitting
SubmittedType(h) ==
    IF hpc[h] = "login" THEN LOGIN
    ELSE IF rpc[h] = "publish" THEN TEXTLINE ELSE LOGOUT

\* the range loop is at a member other than the sender, in ch <- m, and that
\* member's writer loop is not at its receive
BoardStalled ==
    /\ bpc = "fanout" /\ todo # <<>>
    /\ ~SkipName(Head(todo), accepted[m].Name)
    /\ hpc[clients[Head(todo)]] # "select"

----------------------------------------------------------------------------
\* Serve has returned for h before b.Login
FailedBeforeLogin(h) == hpc[h] = "done" /\ LoginOf(h) = {}

\* C18: a handler that returns before its login, on a failed write or flush of
\* the prompt or a failed read of the name, sends the Board nothing, neither a
\* Login nor a Logout: the step in which it returns leaves the Board's state
\* as it was, nothing of it is ever accepted, it is blocked in no send and it
\* starts no reader goroutine, and its channel is not in membership.
C18_NoEventBeforeLogin ==
    /\ [][\A h \in Handlers :
            (hpc[h] \in {"prompt", "readname"} /\ hpc'[h] = "done")
                => boardVars' = boardVars]_vars
    /\ [](\A h \in Handlers :
            FailedBeforeLogin(h) =>
                /\ \A i \in Idx : accepted[i].from # h
                /\ ~Submitting(h) /\ rpc[h] = "none"
                /\ \A k \in DOMAIN clients : clients[k] # h
                /\ connClosed[h])

C18_Witness ==
    \E h, g \in Handlers :
        /\ FailedBeforeLogin(h) /\ out[h] = <<>>
        /\ FailedBeforeLogin(g) /\ out[g] = <<Prompt>>
        /\ \E k \in Handlers : Registered(k) /\ rpc[k] = "publish"

\* the notifications of h that the Board has accepted, in their order
EventsOf(h) == SelectSeq(accepted, LAMBDA e : e.from = h)

\* C19: what the Board accepts of one handler is one Login, then Publishes,
\* then at most one Logout, which is the last: the first notification is the
\* Login and no later one is, none but the last is a Logout, a handler blocked
\* in Login has had nothing accepted, and a handler blocked in Publish or
\* Logout has had its Login accepted and no Logout.
C19_HandlerProtocol ==
    \A h \in Handlers :
        LET ev == EventsOf(h) IN
        /\ ev # <<>> => ev[1].Type = LOGIN
        /\ \A i \in 2..Len(ev) : ev[i].Type # LOGIN
        /\ \A i \in 1..(Len(ev) - 1) : ev[i].Type # LOGOUT
        /\ hpc[h] = "login" => ev = <<>>
        /\ rpc[h] \in {"publish", "logout"} =>
              ev # <<>> /\ ev[Len(ev)].Type # LOGOUT

C19_Witness ==
    \E h \in Handlers :
        LET ev == EventsOf(h) IN
        /\ Len(ev) = 4
        /\ ev[2].Type = TEXTLINE /\ ev[3].Type = TEXTLINE
        /\ ev[4].Type = LOGOUT
        /\ rpc[h] = "exit"

====
